---- MODULE Spec2Model ----
(***************************************************************************)
(* Model of PrototypePricingModel.py: price_contract, months_between,      *)
(* get_price_estimate and the way calculate_value calls price_contract.    *)
(*                                                                         *)
(* Dates are Python strings, modelled as sequences of one-character        *)
(* strings.  The code orders events by comparing these strings             *)
(* (key=lambda x: x['date']) and computes day gaps by parsing them         *)
(* (datetime.strptime), so the model keeps both operations apart.          *)
(*                                                                         *)
(* Money is a Python float.  The model computes it exactly, as an integer  *)
(* number of 1/(100*1461) currency units: fees and prices are integers in  *)
(* hundredths, volumes are integers, and months_between(d1, d2) =          *)
(* days / (365.25/12) = days*48/1461 is kept as the numerator days*48.     *)
(* Floating-point rounding is not modelled.                                *)
(***************************************************************************)
EXTENDS Integers, Sequences, FiniteSets, TLC

\* At most this many events in the injection and withdrawal lists together.
MaxEvents == 3

\* Python's None.
None == "None"

-----------------------------------------------------------------------------
(* Date strings                                                            *)

D_2023_06_01 == <<"2","0","2","3","-","0","6","-","0","1">>
D_2023_6_1   == <<"2","0","2","3","-","6","-","1">>
D_2023_12_01 == <<"2","0","2","3","-","1","2","-","0","1">>
D_2024_12_01 == <<"2","0","2","4","-","1","2","-","0","1">>

\* The date strings a caller passes; all are accepted by strptime("%Y-%m-%d")
\* and by pandas.to_datetime.
DateStrs == {D_2023_06_01, D_2023_6_1, D_2023_12_01, D_2024_12_01}

\* ord(c) for the characters of a date string.
CharCode(c) ==
  CASE c = "-" -> 45
    [] c = "0" -> 48 [] c = "1" -> 49 [] c = "2" -> 50 [] c = "3" -> 51
    [] c = "4" -> 52 [] c = "5" -> 53 [] c = "6" -> 54 [] c = "7" -> 55
    [] c = "8" -> 56 [] c = "9" -> 57

\* Python's str.__lt__: lexicographic by code point, a proper prefix is smaller.
RECURSIVE StrLessFrom(_, _, _)
StrLessFrom(a, b, i) ==
  IF i > Len(b) THEN FALSE
  ELSE IF i > Len(a) THEN TRUE
  ELSE IF CharCode(a[i]) < CharCode(b[i]) THEN TRUE
  ELSE IF CharCode(a[i]) > CharCode(b[i]) THEN FALSE
  ELSE StrLessFrom(a, b, i + 1)

StrLess(a, b) == StrLessFrom(a, b, 1)

\* Index of the first "-" at or after i, Len(s)+1 if there is none.
RECURSIVE FieldEnd(_, _)
FieldEnd(s, i) ==
  IF i > Len(s) \/ s[i] = "-" THEN i ELSE FieldEnd(s, i + 1)

\* The decimal number written in s[i..j-1].
RECURSIVE DigitsValue(_, _, _)
DigitsValue(s, i, j) ==
  IF i >= j THEN 0
  ELSE DigitsValue(s, i, j - 1) * 10 + (CharCode(s[j - 1]) - 48)

\* datetime.strptime(s, "%Y-%m-%d"): %m and %d accept one or two digits.
strptime(s) ==
  LET e1 == FieldEnd(s, 1)
      e2 == FieldEnd(s, e1 + 1)
  IN [year  |-> DigitsValue(s, 1, e1),
      month |-> DigitsValue(s, e1 + 1, e2),
      day   |-> DigitsValue(s, e2 + 1, Len(s) + 1)]

IsLeap(y) == y % 4 = 0 /\ (y % 100 # 0 \/ y % 400 = 0)

DaysInMonth(y, m) ==
  IF m = 2 THEN (IF IsLeap(y) THEN 29 ELSE 28)
  ELSE IF m \in {4, 6, 9, 11} THEN 30 ELSE 31

RECURSIVE DaysBeforeMonth(_, _)
DaysBeforeMonth(y, m) ==
  IF m <= 1 THEN 0 ELSE DaysBeforeMonth(y, m - 1) + DaysInMonth(y, m - 1)

DaysBeforeYear(y) ==
  LET p == y - 1 IN p * 365 + (p \div 4) - (p \div 100) + (p \div 400)

\* The proleptic Gregorian ordinal of a parsed date (datetime.toordinal).
ToOrdinal(d) == DaysBeforeYear(d.year) + DaysBeforeMonth(d.year, d.month) + d.day

\* The ordinal of every date string, computed once.
OrdinalOf == [s \in DateStrs |-> ToOrdinal(strptime(s))]

\* (d2 - d1).days of months_between.
DiffDays(date_str1, date_str2) == OrdinalOf[date_str2] - OrdinalOf[date_str1]

\* avg_days_per_month = 365.25 / 12 = 1461/48.
MonthDen == 1461
MonthNum == 48

\* Variants: the two dates swapped, and both end days counted.
months_between_swapped(date_str1, date_str2) == DiffDays(date_str2, date_str1) * MonthNum

months_between_inclusive(date_str1, date_str2) ==
  (DiffDays(date_str1, date_str2) + 1) * MonthNum

\* months_between(d1, d2) = diff_days / avg_days_per_month, in units of
\* 1/MonthDen month.
months_between(date_str1, date_str2) == DiffDays(date_str1, date_str2) * MonthNum

-----------------------------------------------------------------------------
(* Inputs                                                                  *)

Volumes == {1, 2}

EventInputs == [date : DateStrs, volume : Volumes]

RECURSIVE SeqsUpTo(_, _)
SeqsUpTo(S, n) ==
  IF n = 0 THEN {<<>>}
  ELSE LET shorter == SeqsUpTo(S, n - 1)
       IN shorter \cup {Append(q, x) : q \in {r \in shorter : Len(r) = n - 1}, x \in S}

\* Fees in hundredths of a currency unit per unit volume:
\* all zero, or the defaults of the entry fields (0.02, 0.10, 0.05).
FeeSets == {[storage |-> 0, injection |-> 0, withdrawal |-> 0],
            [storage |-> 2, injection |-> 10, withdrawal |-> 5]}

Capacities == {3, 600000}

Ordinals == {OrdinalOf[s] : s \in DateStrs}

\* The fitted models: a price (in hundredths) for every date.
PriceCurves ==
  {[o \in Ordinals |-> IF o = OrdinalOf[D_2023_06_01] THEN 200
                       ELSE IF o = OrdinalOf[D_2023_12_01] THEN 300 ELSE 250],
   [o \in Ordinals |-> IF o = OrdinalOf[D_2023_06_01] THEN 300
                       ELSE IF o = OrdinalOf[D_2023_12_01] THEN 200 ELSE 200]}

\* pandas.to_datetime(input_date), as an ordinal.
to_datetime(input_date) == OrdinalOf[input_date]

\* get_price_estimate(model, input_date), in hundredths.
get_price_estimate(m, input_date) == m[to_datetime(input_date)]

-----------------------------------------------------------------------------
(* Sorting                                                                 *)

\* Insert e behind every element whose date is not greater (stable).
RECURSIVE InsertByDate(_, _)
InsertByDate(e, s) ==
  IF s = <<>> THEN <<e>>
  ELSE IF StrLess(e.date, Head(s).date) THEN <<e>> \o s
  ELSE <<Head(s)>> \o InsertByDate(e, Tail(s))

\* sorted(seq, key=lambda x: x['date']) and list.sort(key=...): stable,
\* ascending in the str order of the keys.
RECURSIVE SortedFrom(_, _, _)
SortedFrom(s, i, acc) ==
  IF i > Len(s) THEN acc ELSE SortedFrom(s, i + 1, InsertByDate(s[i], acc))

sorted(s) == SortedFrom(s, 1, <<>>)

Tagged(s, t) == [i \in 1..Len(s) |-> [date |-> s[i].date, volume |-> s[i].volume, type |-> t]]

\* all_events as built by lines 58-63.
MergedEvents(inj, wth) ==
  sorted(Tagged(sorted(inj), "injection") \o Tagged(sorted(wth), "withdrawal"))

-----------------------------------------------------------------------------
(* State                                                                   *)

VARIABLES
  injection_events, withdrawal_events,   \* the two argument lists
  model,                                 \* the fitted price model
  storage_monthly_fee, injection_fee, withdrawal_fee, max_storage,
  pc,            \* "sort", "loop", "returned", "raised"
  all_events,    \* the merged list
  idx,           \* index in all_events of the next event of the for loop
  inventory, net_value, prev_date,
  result,        \* the value returned, None before and on error
  error,         \* the ValueError raised, None if none
  queries,       \* history: the dates passed to get_price_estimate, in order
  charges        \* history: one record per storage charge of line 78

vars == <<injection_events, withdrawal_events, model, storage_monthly_fee,
          injection_fee, withdrawal_fee, max_storage, pc, all_events, idx,
          inventory, net_value, prev_date, result, error, queries, charges>>

inputs == <<injection_events, withdrawal_events, model, storage_monthly_fee,
            injection_fee, withdrawal_fee, max_storage>>

\* The state at the entry of price_contract.
Entry ==
  /\ pc = "sort"
  /\ all_events = <<>>
  /\ idx = 1
  /\ inventory = 0
  /\ net_value = 0
  /\ prev_date = None
  /\ result = None
  /\ error = None
  /\ queries = <<>>
  /\ charges = <<>>

\* price_contract called with any two lists.
Init ==
  /\ injection_events \in SeqsUpTo(EventInputs, MaxEvents)
  /\ withdrawal_events \in SeqsUpTo(EventInputs, MaxEvents - Len(injection_events))
  /\ model \in PriceCurves
  /\ \E f \in FeeSets :
       /\ storage_monthly_fee = f.storage
       /\ injection_fee = f.injection
       /\ withdrawal_fee = f.withdrawal
  /\ max_storage \in Capacities
  /\ Entry

\* Lines 57-67: build and sort all_events, initialise the accumulators.
SortEvents ==
  /\ pc = "sort"
  /\ all_events' = MergedEvents(injection_events, withdrawal_events)
  /\ idx' = 1
  /\ inventory' = 0
  /\ net_value' = 0
  /\ prev_date' = None
  /\ pc' = "loop"
  /\ UNCHANGED <<inputs, result, error, queries, charges>>

\* Line 77: inventory * storage_monthly_fee * months_diff.
storage_cost(inv, fee, d1, d2) == inv * fee * months_between(d1, d2)

\* Lines 75-78: net_value after the storage charge of this iteration.
AfterStorage(event) ==
  IF prev_date # None
    THEN net_value - storage_cost(inventory, storage_monthly_fee, prev_date, event.date)
    ELSE net_value

\* The history of line 78.
ChargesAfter(event) ==
  IF prev_date # None
    THEN Append(charges,
                [inventory |-> inventory, from |-> prev_date, to |-> event.date,
                 cost |-> storage_cost(inventory, storage_monthly_fee, prev_date, event.date)])
    ELSE charges

\* Variants with the capacity test made on the level before the injection only,
\* and with the comparison made non-strict.
ExceedsCapacityBefore(inv, volume) == inv > max_storage

ExceedsCapacityNonStrict(inv, volume) == inv + volume >= max_storage

\* Line 82.
ExceedsCapacity(inv, volume) == inv + volume > max_storage

\* Line 90.
Insufficient(inv, volume) == inv < volume

\* Variant that pays the price once instead of once per unit of volume.
BuyGasPerEvent(nv, price, volume) == nv - price * MonthDen - injection_fee * volume * MonthDen

\* Lines 85-86 and 93-94, scaled by MonthDen.
BuyGas(nv, price, volume) == nv - price * volume * MonthDen - injection_fee * volume * MonthDen

SellGas(nv, price, volume) == nv + price * volume * MonthDen - withdrawal_fee * volume * MonthDen

\* One iteration of the loop for an injection that fits (lines 70-87, 97).
ProcessInjection ==
  /\ pc = "loop"
  /\ idx <= Len(all_events)
  /\ LET event == all_events[idx] IN
       /\ event.type = "injection"
       /\ ~ExceedsCapacity(inventory, event.volume)
       /\ net_value' = BuyGas(AfterStorage(event),
                              get_price_estimate(model, event.date), event.volume)
       /\ inventory' = inventory + event.volume
       /\ queries' = Append(queries, event.date)
       /\ charges' = ChargesAfter(event)
       /\ prev_date' = event.date
  /\ idx' = idx + 1
  /\ UNCHANGED <<inputs, pc, all_events, result, error>>

\* One iteration for an injection that does not fit (lines 70-83).
RaiseCapacity ==
  /\ pc = "loop"
  /\ idx <= Len(all_events)
  /\ LET event == all_events[idx] IN
       /\ event.type = "injection"
       /\ ExceedsCapacity(inventory, event.volume)
       /\ net_value' = AfterStorage(event)
       /\ charges' = ChargesAfter(event)
       /\ error' = [kind |-> "Injection exceeds max storage",
                    volume |-> event.volume, max_storage |-> max_storage]
  /\ pc' = "raised"
  /\ UNCHANGED <<inputs, all_events, idx, inventory, prev_date, result, queries>>

\* One iteration for a withdrawal that is covered (lines 70-78, 89-97).
ProcessWithdrawal ==
  /\ pc = "loop"
  /\ idx <= Len(all_events)
  /\ LET event == all_events[idx] IN
       /\ event.type = "withdrawal"
       /\ ~Insufficient(inventory, event.volume)
       /\ net_value' = SellGas(AfterStorage(event),
                               get_price_estimate(model, event.date), event.volume)
       /\ inventory' = inventory - event.volume
       /\ queries' = Append(queries, event.date)
       /\ charges' = ChargesAfter(event)
       /\ prev_date' = event.date
  /\ idx' = idx + 1
  /\ UNCHANGED <<inputs, pc, all_events, result, error>>

\* Variant that skips a withdrawal that is not covered and goes on.
SkipInsufficient ==
  /\ pc = "loop"
  /\ idx <= Len(all_events)
  /\ LET event == all_events[idx] IN
       /\ event.type = "withdrawal"
       /\ Insufficient(inventory, event.volume)
       /\ net_value' = AfterStorage(event)
       /\ charges' = ChargesAfter(event)
       /\ prev_date' = event.date
  /\ idx' = idx + 1
  /\ UNCHANGED <<inputs, pc, all_events, inventory, result, error, queries>>

\* One iteration for a withdrawal that is not covered (lines 70-78, 89-91).
RaiseInsufficient ==
  /\ pc = "loop"
  /\ idx <= Len(all_events)
  /\ LET event == all_events[idx] IN
       /\ event.type = "withdrawal"
       /\ Insufficient(inventory, event.volume)
       /\ net_value' = AfterStorage(event)
       /\ charges' = ChargesAfter(event)
       /\ error' = [kind |-> "Withdraw but only in storage",
                    volume |-> event.volume, inventory |-> inventory]
  /\ pc' = "raised"
  /\ UNCHANGED <<inputs, all_events, idx, inventory, prev_date, result, queries>>

\* Line 99.
Return ==
  /\ pc = "loop"
  /\ idx > Len(all_events)
  /\ result' = net_value
  /\ pc' = "returned"
  /\ UNCHANGED <<inputs, all_events, idx, inventory, net_value, prev_date,
                 error, queries, charges>>

Next ==
  \/ SortEvents
  \/ ProcessInjection
  \/ RaiseCapacity
  \/ ProcessWithdrawal
  \/ RaiseInsufficient
  \/ Return

Spec == Init /\ [][Next]_vars

\* The volumes typed into the volume entries.
EntryVolumes == {1, 100}

\* calculate_value, lines 167-193: one injection and one withdrawal, built from
\* the entry fields, are passed to price_contract.
InitGUI ==
  /\ \E inj_date \in DateStrs, inj_volume \in EntryVolumes :
       injection_events = <<[date |-> inj_date, volume |-> inj_volume]>>
  /\ \E wth_date \in DateStrs, wth_volume \in EntryVolumes :
       withdrawal_events = <<[date |-> wth_date, volume |-> wth_volume]>>
  /\ model \in PriceCurves
  /\ \E f \in FeeSets :
       /\ storage_monthly_fee = f.storage
       /\ injection_fee = f.injection
       /\ withdrawal_fee = f.withdrawal
  /\ max_storage \in Capacities
  /\ Entry

SpecGUI == InitGUI /\ [][Next]_vars

-----------------------------------------------------------------------------
(* Definitions used to state the properties.  They are written from the    *)
(* calendar dates and the input lists, not from the operators above.       *)

\* The calendar day number of a date string.
Day(s) == OrdinalOf[s]

\* Injected minus withdrawn volume of the first n events of a list.
RECURSIVE NetVolume(_, _)
NetVolume(events, n) ==
  IF n = 0 THEN 0
  ELSE NetVolume(events, n - 1)
       + (IF events[n].type = "injection" THEN events[n].volume ELSE 0 - events[n].volume)

RECURSIVE TotalVolume(_, _)
TotalVolume(events, n) ==
  IF n = 0 THEN 0 ELSE TotalVolume(events, n - 1) + events[n].volume

\* Index of the first event, at or after i, that breaks the capacity or the
\* sufficiency bound when the events before it are applied; 0 if none does.
RECURSIVE FirstViolationFrom(_, _, _)
FirstViolationFrom(events, i, inv) ==
  IF i > Len(events) THEN 0
  ELSE IF events[i].type = "injection"
    THEN IF inv + events[i].volume > max_storage THEN i
         ELSE FirstViolationFrom(events, i + 1, inv + events[i].volume)
    ELSE IF events[i].volume > inv THEN i
         ELSE FirstViolationFrom(events, i + 1, inv - events[i].volume)

FirstViolation(events) == FirstViolationFrom(events, 1, 0)

\* Chronological stable merge: the concatenation injections then withdrawals,
\* stably ordered by calendar day.
RECURSIVE InsertByDay(_, _)
InsertByDay(e, s) ==
  IF s = <<>> THEN <<e>>
  ELSE IF Day(e.date) < Day(Head(s).date) THEN <<e>> \o s
  ELSE <<Head(s)>> \o InsertByDay(e, Tail(s))

RECURSIVE ChronoFrom(_, _, _)
ChronoFrom(s, i, acc) ==
  IF i > Len(s) THEN acc ELSE ChronoFrom(s, i + 1, InsertByDay(s[i], acc))

ChronoMerge(inj, wth) ==
  ChronoFrom([i \in 1..Len(inj) |-> [date |-> inj[i].date, volume |-> inj[i].volume,
                                     type |-> "injection"]]
             \o [i \in 1..Len(wth) |-> [date |-> wth[i].date, volume |-> wth[i].volume,
                                        type |-> "withdrawal"]],
             1, <<>>)

Price(s) == model[Day(s)]

\* The cash flow of one event, fees included, in 1/(100*1461) currency units.
CashFlow(e) ==
  IF e.type = "injection"
    THEN 0 - (Price(e.date) + injection_fee) * e.volume * 1461
    ELSE (Price(e.date) - withdrawal_fee) * e.volume * 1461

\* Cash flows of the first n events minus the carrying cost of the intervals
\* between consecutive events among them.
RECURSIVE ExpectedNet(_, _)
ExpectedNet(events, n) ==
  IF n = 0 THEN 0
  ELSE ExpectedNet(events, n - 1) + CashFlow(events[n])
       - (IF n > 1
            THEN NetVolume(events, n - 1) * storage_monthly_fee
                 * (Day(events[n].date) - Day(events[n - 1].date)) * 48
            ELSE 0)

Terminated == pc \in {"returned", "raised"}

CapacityExceeded == "Injection exceeds max storage"
InsufficientInventory == "Withdraw but only in storage"

-----------------------------------------------------------------------------
(* Properties                                                              *)

\* C1: the inventory is between 0 and max_storage at entry and after every
\* processed event, and it is always exactly the net volume of the events
\* processed so far: an event that fails its check (idx still points at it when
\* the error is raised) has not been applied and nothing is clamped afterwards.
C1_InventoryWithinBounds ==
  /\ 0 <= inventory
  /\ inventory <= max_storage
  /\ pc # "sort" => inventory = NetVolume(all_events, idx - 1)

C1_Witness ==
  /\ pc = "raised"
  /\ error.kind = InsufficientInventory
  /\ idx = 3
  /\ inventory = 1
  /\ all_events[idx].volume = 2

\* C2: an injection that brings the inventory exactly to max_storage is
\* applied; one that brings it above max_storage raises the capacity error
\* (not the insufficient-inventory one) and leaves the inventory as it was.
C2_Step ==
  (pc = "loop" /\ idx <= Len(all_events) /\ all_events[idx].type = "injection") =>
    LET v == all_events[idx].volume IN
      /\ inventory + v = max_storage =>
            pc' = "loop" /\ inventory' = max_storage /\ error' = None
      /\ inventory + v < max_storage =>
            pc' = "loop" /\ inventory' = inventory + v /\ error' = None
      /\ inventory + v > max_storage =>
            /\ pc' = "raised"
            /\ error'.kind = CapacityExceeded
            /\ error'.kind # InsufficientInventory
            /\ inventory' = inventory
            /\ result' = None

\* C2, for every step of every run.
C2_InjectionAtCapacity == [][C2_Step]_vars

C2_Witness ==
  /\ pc = "raised"
  /\ error.kind = CapacityExceeded
  /\ inventory = max_storage
  /\ all_events[idx].volume = 1

\* C4: price_contract raises at the first event of the merged order that
\* breaks a bound and only there: nothing is returned, the oracle has been
\* queried for the events before it and not for it, the inventory is that of
\* the events before it, and no step follows.  A run that returns had no such
\* event.
C4_StopsAtFirstViolation ==
  /\ pc = "raised" =>
       /\ idx = FirstViolation(all_events)
       /\ result = None
       /\ queries = [i \in 1..(idx - 1) |-> all_events[i].date]
       /\ inventory = NetVolume(all_events, idx - 1)
       /\ ~ENABLED Next
  /\ pc = "loop" => FirstViolation(all_events) \notin 1..(idx - 1)
  /\ pc = "returned" => FirstViolation(all_events) = 0 /\ error = None

C4_Witness ==
  /\ pc = "raised"
  /\ idx = 2
  /\ Len(all_events) = 3
  /\ Len(queries) = 1
  /\ net_value # 0

\* C7: the value is the sum of the events' cash flows minus, for every event
\* but the first, (inventory before the event) x storage fee x (days since the
\* previous event) / (365.25/12); there is one charge per such interval and
\* none before the first or after the last event.
C7_CarryingCostBetweenEvents ==
  /\ pc = "loop" =>
       /\ net_value = ExpectedNet(all_events, idx - 1)
       /\ Len(charges) = (IF idx > 2 THEN idx - 2 ELSE 0)
  /\ pc = "returned" =>
       /\ result = ExpectedNet(all_events, Len(all_events))
       /\ Len(charges) = (IF Len(all_events) > 1 THEN Len(all_events) - 1 ELSE 0)
       /\ \A k \in 1..Len(charges) :
            /\ charges[k].inventory = NetVolume(all_events, k)
            /\ charges[k].cost = NetVolume(all_events, k) * storage_monthly_fee
                   * (Day(all_events[k + 1].date) - Day(all_events[k].date)) * 48

C7_Witness ==
  /\ pc = "returned"
  /\ Len(all_events) = 3
  /\ inventory > 0
  /\ \A k \in 1..Len(charges) : charges[k].cost > 0

RECURSIVE SumPriceVolume(_, _)
SumPriceVolume(list, n) ==
  IF n = 0 THEN 0
  ELSE SumPriceVolume(list, n - 1) + Price(list[n].date) * list[n].volume * 1461

\* C8: with all three fees zero and as much withdrawn as injected, a run that
\* returns yields sum(price x volume) over the withdrawals minus the same sum
\* over the injections, whatever the dates' gaps.
C8_ZeroFeeBalanced ==
  (/\ pc = "returned"
   /\ storage_monthly_fee = 0 /\ injection_fee = 0 /\ withdrawal_fee = 0
   /\ TotalVolume(injection_events, Len(injection_events))
        = TotalVolume(withdrawal_events, Len(withdrawal_events)))
  => result = SumPriceVolume(withdrawal_events, Len(withdrawal_events))
              - SumPriceVolume(injection_events, Len(injection_events))

C8_Witness ==
  /\ pc = "returned"
  /\ storage_monthly_fee = 0 /\ injection_fee = 0 /\ withdrawal_fee = 0
  /\ Len(injection_events) = 2
  /\ Len(withdrawal_events) = 1
  /\ Day(all_events[2].date) - Day(all_events[1].date) = 183
  /\ Day(all_events[3].date) - Day(all_events[2].date) = 366
  /\ result # 0

\* C10: the charge of an interval is linear in its days: for every charge made,
\* the charge for the same inventory and fee over any pair of dates twice as
\* many days apart is exactly twice as large, two charges of one run over the
\* same inventory with gaps g and 2g are in the ratio 1:2, and an interval of
\* 0 days is charged 0.
C10_ChargeLinearInDays ==
  \A k \in 1..Len(charges) :
    LET c == charges[k]
        gap == Day(c.to) - Day(c.from)
    IN /\ gap = 0 => c.cost = 0
       /\ \A d1, d2 \in DateStrs :
            Day(d2) - Day(d1) = 2 * gap
              => storage_cost(c.inventory, storage_monthly_fee, d1, d2) = 2 * c.cost
       /\ \A j \in 1..Len(charges) :
            (/\ charges[j].inventory = c.inventory
             /\ Day(charges[j].to) - Day(charges[j].from) = 2 * gap)
            => charges[j].cost = 2 * c.cost

C10_Witness ==
  /\ Len(charges) = 2
  /\ charges[1].cost > 0
  /\ Day(charges[1].to) - Day(charges[1].from) = 183
  /\ Day(charges[2].to) - Day(charges[2].from) = 0
  /\ charges[2].inventory > 0
  /\ storage_cost(charges[1].inventory, storage_monthly_fee, D_2023_12_01, D_2024_12_01)
       = 2 * charges[1].cost

\* C3: a withdrawal equal to the inventory is applied and leaves 0; a larger
\* one raises the insufficient-inventory error and is not applied; hence a run
\* with a withdrawal dated before every injection never returns a value.
C3_Step ==
  (pc = "loop" /\ idx <= Len(all_events) /\ all_events[idx].type = "withdrawal") =>
    LET v == all_events[idx].volume IN
      /\ v = inventory => pc' = "loop" /\ inventory' = 0 /\ error' = None
      /\ v > inventory =>
            /\ pc' = "raised"
            /\ error'.kind = InsufficientInventory
            /\ inventory' = inventory
            /\ result' = None

\* Some withdrawal is dated before every injection.
EarlyWithdrawal ==
  \E w \in 1..Len(withdrawal_events) :
    \A i \in 1..Len(injection_events) :
      Day(withdrawal_events[w].date) < Day(injection_events[i].date)

C3_EarlyWithdrawalFails == EarlyWithdrawal => pc # "returned"

\* C3, for every step and every state of every run.
C3_WithdrawalAtInventory == [][C3_Step]_vars /\ []C3_EarlyWithdrawalFails

\* C5: the events are processed in ascending order of date; events of the
\* same date are processed injections first, each list in its original order.
C5_ChronologicalOrder ==
  pc # "sort" => all_events = ChronoMerge(injection_events, withdrawal_events)

\* C6: a run that returns has queried the oracle once per event, with the
\* event's date, in the chronological order of the events, so that the dates
\* queried never decrease.
C6_QueriesChronological ==
  pc = "returned" =>
    /\ Len(queries) = Len(injection_events) + Len(withdrawal_events)
    /\ \A i \in 1..Len(queries) : queries[i] = all_events[i].date
    /\ \A i, j \in 1..Len(queries) : i < j => Day(queries[i]) <= Day(queries[j])

\* C9: one injection of v at d1 and one withdrawal of v at a later date d2,
\* v <= max_storage, return
\*   -(p1 v) - (injection_fee v) - (v storage_fee days/(365.25/12)) + (p2 v)
\*   - (withdrawal_fee v);
\* for 2023-06-01, 2023-12-01, v = 100, fees 0.02, 0.10, 0.05, capacity 600000,
\* prices 2.00 and 3.00 this is 72.97 within 0.05 (in 1/146100 units:
\* 10660917 within 7305).
C9_SingleRoundTrip ==
  LET d1 == injection_events[1].date
      d2 == withdrawal_events[1].date
      v == injection_events[1].volume
  IN (/\ Terminated
      /\ Len(injection_events) = 1 /\ Len(withdrawal_events) = 1
      /\ withdrawal_events[1].volume = v
      /\ Day(d1) < Day(d2)
      /\ v <= max_storage)
     => /\ pc = "returned"
        /\ result = 0 - Price(d1) * v * 1461 - injection_fee * v * 1461
                      - v * storage_monthly_fee * (Day(d2) - Day(d1)) * 48
                      + Price(d2) * v * 1461 - withdrawal_fee * v * 1461
        /\ (/\ Day(d1) = Day(D_2023_06_01) /\ Day(d2) = Day(D_2023_12_01)
            /\ v = 100 /\ max_storage = 600000
            /\ storage_monthly_fee = 2 /\ injection_fee = 10 /\ withdrawal_fee = 5
            /\ Price(d1) = 200 /\ Price(d2) = 300)
           => (result - 10660917 <= 7305 /\ 10660917 - result <= 7305)

====
